---- MODULE Spec2Model ----
(***************************************************************************)
(* Model of the CHIP-8 front end driver (main.go): command line, SDL       *)
(* start-up, Load with its deferred recovery, and the scheduling loop      *)
(*     for ProcessEvents() { select { case <-video.C: ...                  *)
(*                                    case <-clock.C: ... } }              *)
(* The chip8 package (LoadROM, LoadFile, Assemble, AddBreakpoint, Process) *)
(* and the other files of package main (ProcessEvents, Paused) are not     *)
(* part of main.go; they are modelled from the specification.              *)
(***************************************************************************)
EXTENDS Naturals, Integers, Sequences, FiniteSets, TLC

\* ---------------------------------------------------------------- bounds
\* number of addresses of a program image (addresses are 0 .. ProgLen-1)
ProgLen == 2
\* largest number of breakpoint annotations in an assembly source
MaxBps == 2
\* largest number of instructions one advance call executes
MaxBurst == 2
\* number of breakpoint descriptions kept of the printed output
MaxLog == 2
\* saturation value of the observation counters
MaxCount == 2

Addr == 0 .. (ProgLen - 1)

RECURSIVE SeqsUpTo(_, _)
SeqsUpTo(S, n) ==
    IF n = 0 THEN {<< >>}
    ELSE LET shorter == SeqsUpTo(S, n - 1)
         IN  shorter \cup {Append(s, x) : s \in {t \in shorter : Len(t) = n - 1}, x \in S}

Inc(c) == IF c < MaxCount THEN c + 1 ELSE c

VARIABLES
    pc,         \* position of main
    File,       \* flag.Arg(0): "" or a path
    Assemble,   \* -a
    Break,      \* -b
    Window,     \* the SDL window and renderer exist
    VM,         \* the CHIP-8 virtual machine (NilVM before Load)
    todo,       \* asm.Breakpoints not yet ranged over in Load
    asmBps,     \* the addresses of asm.Breakpoints as assembled
    panicking,  \* a panic is unwinding Load
    Paused,     \* the run state
    clockC,     \* ticks buffered in clock.C (0 or 1)
    videoC,     \* ticks buffered in video.C (0 or 1)
    quit,       \* a quit event is pending in the event source
    request,    \* pending external run-state request
    res,        \* result of the advance call being inspected
    stdout,     \* breakpoint descriptions printed (last MaxLog)
    raised,     \* observation: a failure was raised inside Load
    nAdv,       \* observation: advance calls of the current iteration
    nDraw,      \* observation: draw calls of the current iteration
    called,     \* observation: some advance call has been made
    firstArg,   \* observation: argument of the first advance call
    lastArg,    \* observation: argument of the latest advance call
    delivered,  \* observation: a poll delivered an external request
    sinceQuit,  \* observation: advance/draw actions since quit was posted
    tie0        \* observation: machine and run state recorded at a tie

vars == << pc, File, Assemble, Break, Window, VM, todo, asmBps, panicking, Paused,
           clockC, videoC, quit, request, res, stdout, raised, nAdv, nDraw,
           called, firstArg, lastArg, delivered, sinceQuit, tie0 >>

Elems(q) == {q[i] : i \in 1 .. Len(q)}

cmdline == << File, Assemble, Break >>
obs     == << raised, nAdv, nDraw, called, firstArg, lastArg, delivered, sinceQuit >>
env     == << quit, request >>
tickers == << clockC, videoC >>

\* ------------------------------------------------------- the machine
NilVM == [image |-> "nil", PC |-> 0, V |-> 0, Breakpoints |-> {}]

LoadROM(image) == [image |-> image, PC |-> 0, V |-> 0, Breakpoints |-> {}]

AddBreakpoint(vm, b) == [vm EXCEPT !.Breakpoints = @ \cup {b}]

\* one instruction: the program counter and the registers change
Step(vm) == [vm EXCEPT !.PC = (@ + 1) % ProgLen, !.V = 1 - @]

\* nothing recorded
NoTie == [open |-> FALSE, vm |-> NilVM, paused |-> FALSE]

NoRes == [type |-> "none", addr |-> 0]
Normal == [type |-> "Normal", addr |-> 0]
Breakpoint(a) == [type |-> "Breakpoint", addr |-> a]

RECURSIVE Run(_, _)
Run(vm, n) ==
    IF n = 0 THEN [vm |-> vm, res |-> Normal]
    ELSE LET s == Step(vm)
         IN  IF s.PC \in s.Breakpoints
             THEN [vm |-> s, res |-> Breakpoint(s.PC)]
             ELSE Run(s, n - 1)

\* advance(paused): a no-op while paused; otherwise n instructions, stopping
\* with a breakpoint result when the program counter reaches a breakpoint
Process(vm, paused, n) ==
    IF paused THEN [vm |-> vm, res |-> Normal] ELSE Run(vm, n)

Println(out, m) ==
    IF Len(out) < MaxLog THEN Append(out, m) ELSE Append(Tail(out), m)

\* ---------------------------------------------------------------- Init
Init ==
    /\ pc = "start"
    /\ File \in {"", "rom"}
    /\ Assemble \in BOOLEAN
    /\ Break \in BOOLEAN
    /\ Window = FALSE
    /\ VM = NilVM
    /\ todo = << >>
    /\ asmBps = {}
    /\ panicking = FALSE
    /\ Paused = FALSE
    /\ clockC = 0
    /\ videoC = 0
    /\ quit = FALSE
    /\ request = "none"
    /\ res = NoRes
    /\ stdout = << >>
    /\ raised = FALSE
    /\ nAdv = 0
    /\ nDraw = 0
    /\ called = FALSE
    /\ firstArg = FALSE
    /\ lastArg = FALSE
    /\ delivered = FALSE
    /\ sinceQuit = 0
    /\ tie0 = NoTie

\* ------------------------------------------------------------- start-up
\* sdl.Init and sdl.CreateWindowAndRenderer: panic on failure
InitSDL(ok) ==
    /\ pc = "start"
    /\ pc' = IF ok THEN "window" ELSE "panicked"
    /\ UNCHANGED << cmdline, asmBps, tie0, Window, VM, todo, panicking, Paused,
                    tickers, env,
                    res, stdout, obs >>

\* a window creation whose error is not tested
CreateWindowUnchecked(ok) ==
    /\ pc = "window"
    /\ pc' = "load"
    /\ Window' = ok
    /\ UNCHANGED << cmdline, asmBps, tie0, VM, todo, panicking, Paused,
                    tickers, env,
                    res, stdout, obs >>

CreateWindow(ok) ==
    /\ pc = "window"
    /\ pc' = IF ok THEN "load" ELSE "panicked"
    /\ Window' = ok
    /\ UNCHANGED << cmdline, asmBps, tie0, VM, todo, panicking, Paused,
                    tickers, env,
                    res, stdout, obs >>

\* ----------------------------------------------------------------- Load
\* a default branch that loads the empty ROM instead of PONG
LoadPongDummy ==
    /\ pc = "load"
    /\ File = ""
    /\ VM' = LoadROM("Dummy")
    /\ pc' = "defer"
    /\ UNCHANGED << cmdline, asmBps, tie0, Window, todo, panicking, Paused,
                    tickers, env,
                    res, stdout, obs >>

\* File == "": VM = chip8.LoadROM(chip8.Pong)
LoadPong ==
    /\ pc = "load"
    /\ File = ""
    /\ VM' = LoadROM("Pong")
    /\ pc' = "defer"
    /\ UNCHANGED << cmdline, asmBps, tie0, Window, todo, panicking, Paused,
                    tickers, env,
                    res, stdout, obs >>

\* asm := chip8.Assemble(File); VM = chip8.LoadROM(asm.ROM)
\* outcome "asm": Assemble panics; "rom": LoadROM panics; "ok": both return
LoadAssemble(outcome, bps) ==
    /\ pc = "load"
    /\ File # ""
    /\ Assemble
    /\ IF outcome = "ok"
       THEN /\ VM' = LoadROM("Asm")
            /\ todo' = bps
            /\ asmBps' = Elems(bps)
            /\ pc' = "range"
            /\ UNCHANGED << panicking, raised >>
       ELSE /\ panicking' = TRUE
            /\ raised' = TRUE
            /\ pc' = "defer"
            /\ UNCHANGED << VM, todo, asmBps >>
    /\ UNCHANGED << cmdline, tie0, Window, Paused, tickers, env, res, stdout,
                    nAdv, nDraw, called, firstArg, lastArg, delivered, sinceQuit >>

\* a range loop that stops one element early
RangeBreakpointsShort(ok) ==
    /\ pc = "range"
    /\ IF Len(todo) <= 1
       THEN /\ pc' = "defer"
            /\ UNCHANGED << VM, todo, panicking, raised >>
       ELSE IF ok
            THEN /\ VM' = AddBreakpoint(VM, Head(todo))
                 /\ todo' = Tail(todo)
                 /\ pc' = "range"
                 /\ UNCHANGED << panicking, raised >>
            ELSE /\ panicking' = TRUE
                 /\ raised' = TRUE
                 /\ pc' = "defer"
                 /\ UNCHANGED << VM, todo >>
    /\ UNCHANGED << cmdline, asmBps, tie0, Window, Paused, tickers, env, res,
                    stdout,
                    nAdv, nDraw, called, firstArg, lastArg, delivered, sinceQuit >>

\* for _, b := range asm.Breakpoints { VM.AddBreakpoint(b) }
RangeBreakpoints(ok) ==
    /\ pc = "range"
    /\ IF todo = << >>
       THEN /\ pc' = "defer"
            /\ UNCHANGED << VM, todo, panicking, raised >>
       ELSE IF ok
            THEN /\ VM' = AddBreakpoint(VM, Head(todo))
                 /\ todo' = Tail(todo)
                 /\ pc' = "range"
                 /\ UNCHANGED << panicking, raised >>
            ELSE /\ panicking' = TRUE
                 /\ raised' = TRUE
                 /\ pc' = "defer"
                 /\ UNCHANGED << VM, todo >>
    /\ UNCHANGED << cmdline, asmBps, tie0, Window, Paused, tickers, env, res,
                    stdout,
                    nAdv, nDraw, called, firstArg, lastArg, delivered, sinceQuit >>

\* VM = chip8.LoadFile(File)
LoadFile(ok) ==
    /\ pc = "load"
    /\ File # ""
    /\ ~Assemble
    /\ IF ok
       THEN /\ VM' = LoadROM("File")
            /\ UNCHANGED << panicking, raised >>
       ELSE /\ panicking' = TRUE
            /\ raised' = TRUE
            /\ UNCHANGED VM
    /\ pc' = "defer"
    /\ UNCHANGED << cmdline, asmBps, tie0, Window, todo, Paused, tickers, env,
                    res, stdout,
                    nAdv, nDraw, called, firstArg, lastArg, delivered, sinceQuit >>

\* the deferred function of Load: a mutant that recovers without loading
\* the dummy ROM
LoadDeferredKeep ==
    /\ pc = "defer"
    /\ panicking' = FALSE
    /\ pc' = "init"
    /\ todo' = << >>
    /\ UNCHANGED << cmdline, asmBps, tie0, Window, VM, Paused, tickers, env, res,
                    stdout, obs >>

\* a deferred function that loads the dummy ROM without testing r != nil
LoadDeferredAlways ==
    /\ pc = "defer"
    /\ VM' = LoadROM("Dummy")
    /\ panicking' = FALSE
    /\ pc' = "init"
    /\ todo' = << >>
    /\ UNCHANGED << cmdline, asmBps, tie0, Window, Paused, tickers, env, res,
                    stdout, obs >>

\* defer func() { if r := recover(); r != nil { ...; VM = LoadROM(Dummy) } }()
\* Load returns: the range over asm.Breakpoints, a local of Load, is gone
LoadDeferred ==
    /\ pc = "defer"
    /\ IF panicking
       THEN /\ VM' = LoadROM("Dummy")
            /\ panicking' = FALSE
       ELSE UNCHANGED << VM, panicking >>
    /\ pc' = "init"
    /\ todo' = << >>
    /\ UNCHANGED << cmdline, asmBps, tie0, Window, Paused, tickers, env, res,
                    stdout, obs >>

\* initially break into debugger?  Paused = Break; the tickers are created
StartLoopKeep ==
    /\ pc = "init"
    /\ pc' = "poll"
    /\ UNCHANGED << cmdline, asmBps, tie0, Window, VM, todo, panicking, Paused,
                    tickers, env,
                    res, stdout, obs >>

StartLoop ==
    /\ pc = "init"
    /\ Paused' = Break
    /\ pc' = "poll"
    /\ UNCHANGED << cmdline, asmBps, tie0, Window, VM, todo, panicking,
                    tickers, env,
                    res, stdout, obs >>

\* ------------------------------------------------- the scheduling loop
LoopPcs == {"poll", "select", "switch"}

ApplyRequest(p, r) ==
    IF r = "resume" THEN FALSE ELSE IF r = "pause" THEN TRUE ELSE p

\* for ProcessEvents() { ... }: the poll at the head of every iteration; it
\* delivers the pending external run-state request and reports quit
ProcessEvents ==
    /\ pc = "poll"
    /\ Paused' = ApplyRequest(Paused, request)
    /\ request' = "none"
    /\ delivered' = (delivered \/ request # "none")
    /\ pc' = IF quit THEN "done" ELSE "select"
    /\ nAdv' = 0
    /\ nDraw' = 0
    /\ UNCHANGED << cmdline, asmBps, tie0, Window, VM, todo, panicking,
                    tickers, quit, res,
                    stdout, raised, called, firstArg, lastArg, sinceQuit >>

\* a select that tries the clock first and the video only when no clock
\* tick is buffered
SelectPriority(v, c) ==
    IF c = 1 THEN {"clock"} ELSE IF v = 1 THEN {"video"} ELSE {}

\* select { case <-video.C: ... case <-clock.C: ... }: the cases that can
\* proceed; one of them is chosen, the select blocks when there is none
SelectCases(v, c) ==
    {k \in {"video"} : v = 1} \cup {k \in {"clock"} : c = 1}

\* a video case that goes back to the select without polling
SelectVideoNoPoll ==
    /\ pc = "select"
    /\ "video" \in SelectCases(videoC, clockC)
    /\ videoC' = 0
    /\ nDraw' = Inc(nDraw)
    /\ sinceQuit' = IF quit THEN Inc(sinceQuit) ELSE sinceQuit
    /\ pc' = "select"
    /\ UNCHANGED << cmdline, asmBps, tie0, Window, VM, todo, panicking, Paused,
                    clockC, env,
                    res, stdout, raised, nAdv, called, firstArg, lastArg,
                    delivered >>

\* a video case that also lets the machine execute an instruction
SelectVideoAdvance ==
    /\ pc = "select"
    /\ "video" \in SelectCases(videoC, clockC)
    /\ videoC' = 0
    /\ VM' = Process(VM, Paused, 1).vm
    /\ nDraw' = Inc(nDraw)
    /\ sinceQuit' = IF quit THEN Inc(sinceQuit) ELSE sinceQuit
    /\ pc' = "poll"
    /\ UNCHANGED << cmdline, asmBps, tie0, Window, todo, panicking, Paused,
                    clockC, env,
                    res, stdout, raised, nAdv, called, firstArg, lastArg,
                    delivered >>

\* a video case that leaves the run state paused
SelectVideoPause ==
    /\ pc = "select"
    /\ "video" \in SelectCases(videoC, clockC)
    /\ videoC' = 0
    /\ Paused' = TRUE
    /\ nDraw' = Inc(nDraw)
    /\ sinceQuit' = IF quit THEN Inc(sinceQuit) ELSE sinceQuit
    /\ pc' = "poll"
    /\ UNCHANGED << cmdline, asmBps, tie0, Window, VM, todo, panicking, clockC,
                    env, res, stdout, raised, nAdv, called, firstArg, lastArg,
                    delivered >>

\* case <-video.C: Refresh()
SelectVideo ==
    /\ pc = "select"
    /\ "video" \in SelectCases(videoC, clockC)
    /\ videoC' = 0
    /\ nDraw' = Inc(nDraw)
    /\ sinceQuit' = IF quit THEN Inc(sinceQuit) ELSE sinceQuit
    /\ pc' = "poll"
    /\ UNCHANGED << cmdline, asmBps, tie0, Window, VM, todo, panicking, Paused,
                    clockC, env,
                    res, stdout, raised, nAdv, called, firstArg, lastArg,
                    delivered >>

\* an advance call that ignores the run state
AdvanceUnpaused(vm, paused, n) ==
    [arg |-> FALSE, out |-> Process(vm, FALSE, n)]

\* VM.Process(Paused): the argument passed and what the call returns
Advance(vm, paused, n) ==
    [arg |-> paused, out |-> Process(vm, paused, n)]

\* a clock case that does not call the machine while paused
SelectClockSkip ==
    /\ pc = "select"
    /\ "clock" \in SelectCases(videoC, clockC)
    /\ clockC' = 0
    /\ IF Paused
       THEN /\ res' = Normal
            /\ UNCHANGED << VM, nAdv, called, firstArg, lastArg >>
       ELSE \E n \in 0 .. MaxBurst :
               LET r == Advance(VM, Paused, n)
               IN  /\ VM' = r.out.vm
                   /\ res' = r.out.res
                   /\ nAdv' = Inc(nAdv)
                   /\ called' = TRUE
                   /\ firstArg' = IF called THEN firstArg ELSE r.arg
                   /\ lastArg' = r.arg
    /\ sinceQuit' = IF quit THEN Inc(sinceQuit) ELSE sinceQuit
    /\ pc' = "switch"
    /\ UNCHANGED << cmdline, asmBps, tie0, Window, todo, panicking, Paused,
                    videoC, env,
                    stdout, raised, nDraw, delivered >>

\* a clock case that also discards the buffered video tick
SelectClockDrain ==
    /\ pc = "select"
    /\ "clock" \in SelectCases(videoC, clockC)
    /\ clockC' = 0
    /\ videoC' = 0
    /\ \E n \in 0 .. MaxBurst :
          LET r == Advance(VM, Paused, n)
          IN  /\ VM' = r.out.vm
              /\ res' = r.out.res
              /\ nAdv' = Inc(nAdv)
              /\ called' = TRUE
              /\ firstArg' = IF called THEN firstArg ELSE r.arg
              /\ lastArg' = r.arg
              /\ sinceQuit' = IF quit THEN Inc(sinceQuit) ELSE sinceQuit
              /\ pc' = "switch"
    /\ UNCHANGED << cmdline, asmBps, tie0, Window, todo, panicking, Paused, env,
                    stdout, raised, nDraw, delivered >>

\* a clock case that lets the pending external request write the run state
\* right after the advance call has read it
SelectClockRequest ==
    /\ pc = "select"
    /\ "clock" \in SelectCases(videoC, clockC)
    /\ clockC' = 0
    /\ Paused' = ApplyRequest(Paused, request)
    /\ request' = "none"
    /\ \E n \in 0 .. MaxBurst :
          LET r == Advance(VM, Paused, n)
          IN  /\ VM' = r.out.vm
              /\ res' = r.out.res
              /\ nAdv' = Inc(nAdv)
              /\ called' = TRUE
              /\ firstArg' = IF called THEN firstArg ELSE r.arg
              /\ lastArg' = r.arg
              /\ sinceQuit' = IF quit THEN Inc(sinceQuit) ELSE sinceQuit
              /\ pc' = "switch"
    /\ UNCHANGED << cmdline, asmBps, tie0, Window, todo, panicking, videoC, quit,
                    stdout, raised, nDraw, delivered >>

\* case <-clock.C: res := VM.Process(Paused)
SelectClock ==
    /\ pc = "select"
    /\ "clock" \in SelectCases(videoC, clockC)
    /\ clockC' = 0
    /\ IF VM.image = "nil"
       THEN /\ pc' = "panicked"
            /\ UNCHANGED << VM, res, nAdv, called, firstArg, lastArg, sinceQuit >>
       ELSE \E n \in 0 .. MaxBurst :
               LET r == Advance(VM, Paused, n)
               IN  /\ VM' = r.out.vm
                   /\ res' = r.out.res
                   /\ nAdv' = Inc(nAdv)
                   /\ called' = TRUE
                   /\ firstArg' = IF called THEN firstArg ELSE r.arg
                   /\ lastArg' = r.arg
                   /\ sinceQuit' = IF quit THEN Inc(sinceQuit) ELSE sinceQuit
                   /\ pc' = "switch"
    /\ UNCHANGED << cmdline, asmBps, tie0, Window, todo, panicking, Paused,
                    videoC, env,
                    stdout, raised, nDraw, delivered >>

\* mutants of the type switch on the result
SwitchAutoResume ==
    /\ pc = "switch"
    /\ IF res.type = "Breakpoint"
       THEN /\ stdout' = Println(stdout, res.addr)
            /\ Paused' = TRUE
       ELSE /\ Paused' = FALSE
            /\ UNCHANGED stdout
    /\ res' = NoRes
    /\ pc' = "poll"
    /\ UNCHANGED << cmdline, asmBps, tie0, Window, VM, todo, panicking, tickers,
                    env, obs >>

SwitchOneShot ==
    /\ pc = "switch"
    /\ IF res.type = "Breakpoint"
       THEN /\ stdout' = Println(stdout, res.addr)
            /\ Paused' = (Paused \/ stdout = << >>)
       ELSE UNCHANGED << stdout, Paused >>
    /\ res' = NoRes
    /\ pc' = "poll"
    /\ UNCHANGED << cmdline, asmBps, tie0, Window, VM, todo, panicking, tickers,
                    env, obs >>

SwitchReturn ==
    /\ pc = "switch"
    /\ IF res.type = "Breakpoint"
       THEN /\ stdout' = Println(stdout, res.addr)
            /\ Paused' = TRUE
            /\ pc' = "done"
       ELSE /\ pc' = "poll"
            /\ UNCHANGED << stdout, Paused >>
    /\ res' = NoRes
    /\ UNCHANGED << cmdline, asmBps, tie0, Window, VM, todo, panicking, tickers,
                    env, obs >>

SwitchNoPoll ==
    /\ pc = "switch"
    /\ IF res.type = "Breakpoint"
       THEN /\ stdout' = Println(stdout, res.addr)
            /\ Paused' = TRUE
       ELSE UNCHANGED << stdout, Paused >>
    /\ res' = NoRes
    /\ pc' = "select"
    /\ UNCHANGED << cmdline, asmBps, tie0, Window, VM, todo, panicking, tickers,
                    env, obs >>

SwitchNoPause ==
    /\ pc = "switch"
    /\ IF res.type = "Breakpoint"
       THEN stdout' = Println(stdout, res.addr)
       ELSE UNCHANGED stdout
    /\ UNCHANGED Paused
    /\ res' = NoRes
    /\ pc' = "poll"
    /\ UNCHANGED << cmdline, asmBps, tie0, Window, VM, todo, panicking, tickers,
                    env, obs >>

\* switch res.(type) { case chip8.Breakpoint: Println(res.Error()); Paused = true }
Switch ==
    /\ pc = "switch"
    /\ IF res.type = "Breakpoint"
       THEN /\ stdout' = Println(stdout, res.addr)
            /\ Paused' = TRUE
       ELSE UNCHANGED << stdout, Paused >>
    /\ res' = NoRes
    /\ pc' = "poll"
    /\ UNCHANGED << cmdline, asmBps, tie0, Window, VM, todo, panicking, tickers,
                    env, obs >>

\* ------------------------------------------------------ the environment
\* time.NewTicker: the channel buffers one tick, a tick is dropped when full
TickClock ==
    /\ pc \in LoopPcs
    /\ clockC = 0
    /\ clockC' = 1
    /\ UNCHANGED << pc, cmdline, asmBps, tie0, Window, VM, todo, panicking,
                    Paused, videoC,
                    env, res, stdout, obs >>

TickVideo ==
    /\ pc \in LoopPcs
    /\ videoC = 0
    /\ videoC' = 1
    /\ UNCHANGED << pc, cmdline, asmBps, tie0, Window, VM, todo, panicking,
                    Paused, clockC,
                    env, res, stdout, obs >>

\* the user closes the window or asks to quit
UserQuit ==
    /\ Window
    /\ pc \notin {"done", "panicked"}
    /\ ~quit
    /\ quit' = TRUE
    /\ UNCHANGED << pc, cmdline, asmBps, tie0, Window, VM, todo, panicking,
                    Paused, tickers,
                    request, res, stdout, obs >>

\* the user asks the debugger to resume or to pause
UserRequest(r) ==
    /\ Window
    /\ pc \notin {"done", "panicked"}
    /\ request # r
    /\ request' = r
    /\ UNCHANGED << pc, cmdline, asmBps, tie0, Window, VM, todo, panicking,
                    Paused, tickers,
                    quit, res, stdout, obs >>

\* ------------------------------------------------------- specification
Next ==
    \/ \E ok \in BOOLEAN : InitSDL(ok)
    \/ \E ok \in BOOLEAN : CreateWindow(ok)
    \/ LoadPong
    \/ \E outcome \in {"asm", "rom", "ok"}, bps \in SeqsUpTo(Addr, MaxBps) :
          LoadAssemble(outcome, bps)
    \/ \E ok \in BOOLEAN : RangeBreakpoints(ok)
    \/ \E ok \in BOOLEAN : LoadFile(ok)
    \/ LoadDeferred
    \/ StartLoop
    \/ ProcessEvents
    \/ SelectVideo
    \/ SelectClock
    \/ Switch
    \/ TickClock
    \/ TickVideo
    \/ UserQuit
    \/ \E r \in {"resume", "pause"} : UserRequest(r)

Spec == Init /\ [][Next]_vars

\* the loop keeps running; Go's select chooses uniformly at random among the
\* cases that can proceed, so a case that is ready again and again is taken
FairSpec ==
    /\ Spec
    /\ WF_vars(ProcessEvents)
    /\ WF_vars(Switch)
    /\ SF_vars(SelectVideo)
    /\ SF_vars(SelectClock)

\* ------------------------------------------- two iterations after a tie
\* both triggers are ready at the wait point
Tie == pc = "select" /\ clockC = 1 /\ videoC = 1

\* record the machine and the run state of a tie at which no external input
\* is pending
RecordTie ==
    /\ tie0 = NoTie
    /\ Tie
    /\ ~quit
    /\ request = "none"
    /\ tie0' = [open |-> TRUE, vm |-> VM, paused |-> Paused]
    /\ UNCHANGED << pc, cmdline, asmBps, Window, VM, todo, panicking, Paused,
                    tickers, env, res, stdout, raised, nAdv, nDraw, called,
                    firstArg, lastArg, delivered, sinceQuit >>

\* the program as in Next up to a recorded tie; from there on the loop alone,
\* with no tick and no external input: it services both triggers, in either
\* order, and then blocks
TieNext ==
    \/ tie0 = NoTie /\ Next
    \/ RecordTie
    \/ tie0.open /\ (ProcessEvents \/ SelectVideo \/ SelectClock \/ Switch)

TieSpec == Init /\ [][TieNext]_vars

TypeOK ==
    /\ pc \in {"start", "window", "load", "range", "defer", "init", "poll",
               "select", "switch", "done", "panicked"}
    /\ File \in {"", "rom"}
    /\ Assemble \in BOOLEAN /\ Break \in BOOLEAN /\ Window \in BOOLEAN
    /\ VM.image \in {"nil", "Pong", "Dummy", "Asm", "File"}
    /\ VM.PC \in Addr /\ VM.V \in 0 .. 1 /\ VM.Breakpoints \subseteq Addr
    /\ Paused \in BOOLEAN /\ panicking \in BOOLEAN
    /\ clockC \in 0 .. 1 /\ videoC \in 0 .. 1
    /\ request \in {"none", "resume", "pause"}
    /\ res.type \in {"none", "Normal", "Breakpoint"}
    /\ Len(stdout) <= MaxLog
    /\ asmBps \subseteq Addr

\* ---------------------------------------------------------------- claims
Looping == pc \in LoopPcs \cup {"done"}

\* C1: whatever failure is raised inside Load (by Assemble, by LoadROM of the
\* assembled image, by an AddBreakpoint call or by LoadFile), Load returns
\* normally with the machine being exactly the dummy image and no breakpoint;
\* nothing partially built survives and the failure never reaches the loop.
LoadRecovery ==
    /\ (raised /\ pc = "init") => (VM = LoadROM("Dummy") /\ ~panicking)
    /\ (raised /\ Looping) =>
          (VM.image = "Dummy" /\ VM.Breakpoints = {} /\ ~panicking)
    /\ raised => pc # "panicked"

\* a failure of an AddBreakpoint call, made on the machine of an assembled
\* image with two annotated addresses, has been recovered from
LoadRecoveryWitness ==
    /\ pc = "init"
    /\ raised
    /\ Cardinality(asmBps) = 2
    /\ VM = LoadROM("Dummy")

\* C2: once paused, the run state stays paused through step and draw
\* iterations; the only step from paused to running is the poll delivering an
\* external resume request.
NoAutoResume ==
    [][(Paused /\ ~Paused') => (pc = "poll" /\ request = "resume")]_vars

\* paused by a breakpoint, and still paused after a later paused advance call
NoAutoResumeWitness ==
    /\ pc = "poll"
    /\ Paused
    /\ stdout # << >>
    /\ ~delivered
    /\ nAdv = 1
    /\ lastArg

\* C3: every advance result that is a breakpoint hit is printed and leaves
\* the run state paused when the iteration ends, the second hit of the same
\* address included.
BreakpointPauses ==
    [][(pc = "switch" /\ res.type = "Breakpoint" /\ pc' # pc) =>
          (Paused' /\ pc' = "poll" /\ stdout' = Println(stdout, res.addr))]_vars

\* the same address was hit twice, with a resume in between, and the second
\* hit paused again
BreakpointPausesWitness ==
    /\ pc = "poll"
    /\ Paused
    /\ delivered
    /\ nAdv = 1
    /\ ~lastArg
    /\ Len(stdout) = 2
    /\ stdout[1] = stdout[2]
    /\ VM.PC = stdout[2]

\* C4 as stated: the first advance call is made with paused equal to the
\* start-paused flag.
FirstAdvanceArgIsBreak == called => (firstArg = Break)

\* C4: until a poll delivers an external request or a breakpoint is hit, the
\* run state of the loop equals the start-paused flag, on every load path; the
\* first advance call gets that value unless a request was delivered before.
InitialRunState ==
    /\ (Looping /\ ~delivered /\ stdout = << >>) => (Paused = Break)
    /\ (called /\ ~delivered) => (firstArg = Break)

\* started with -b on the dummy fallback: the first advance call was paused
InitialRunStateWitness ==
    /\ Break
    /\ raised
    /\ called
    /\ ~delivered
    /\ firstArg
    /\ pc = "switch"

\* C5: an iteration that services the step trigger calls advance exactly once,
\* with the current run state as argument, paused or not.
NeverSkipsStep ==
    [][(clockC = 1 /\ clockC' = 0) =>
          (nAdv = 0 /\ nAdv' = 1 /\ called' /\ lastArg' = Paused)]_vars

\* a paused advance call after a running first one
NeverSkipsStepWitness ==
    /\ pc = "switch"
    /\ called
    /\ ~firstArg
    /\ Paused
    /\ lastArg
    /\ nAdv = 1

\* C6: while the run state is paused no step of the loop, an advance call in
\* particular, changes the machine.
PausedAdvanceIdempotent ==
    [][(Paused /\ pc \in LoopPcs) => (VM' = VM)]_vars

\* started with -b: the first advance call was paused, the machine is as loaded
PausedAdvanceIdempotentWitness ==
    /\ Break
    /\ ~delivered
    /\ called
    /\ firstArg
    /\ pc = "poll"
    /\ nAdv = 1
    /\ VM = LoadROM("File")

\* C7: at most one of advance and draw executes in an iteration, and no draw
\* has run in an iteration whose advance result is being inspected.
OneActionPerIteration ==
    /\ nAdv + nDraw <= 1
    /\ (pc = "switch") => (nAdv = 1 /\ nDraw = 0)

\* a draw iteration ended with the step trigger ready and not serviced
OneActionPerIterationWitness ==
    /\ pc = "poll"
    /\ nDraw = 1
    /\ nAdv = 0
    /\ clockC = 1
    /\ called

\* C8: the loop ends only at the poll, when quit is pending, and after that
\* nothing executes.
QuitOnlyExit ==
    [][/\ (pc # "done" /\ pc' = "done") => (pc = "poll" /\ quit)
       /\ (pc = "done") => UNCHANGED << pc, VM, Paused, stdout, nAdv, nDraw >>]_vars

\* the loop outlived a breakpoint hit and ended at the poll
QuitOnlyExitWitness ==
    /\ pc = "done"
    /\ quit
    /\ stdout # << >>
    /\ Paused

\* C9 as stated: no advance or draw action executes once the quit signal is
\* ready.
QuitWakesWait == sinceQuit = 0

\* C9: the wait ends only by receiving a tick, and at most one advance or
\* draw action executes after the quit signal became ready.
QuitSeenAtNextPoll ==
    /\ [](sinceQuit <= 1)
    /\ [][(pc = "select" /\ pc' # "select") =>
             (clockC' < clockC \/ videoC' < videoC)]_vars

\* the loop ended after one action that followed the quit signal
QuitSeenAtNextPollWitness ==
    /\ pc = "done"
    /\ sinceQuit = 1

\* C10: while the loop runs, a buffered tick of either trigger is eventually
\* received, so neither trigger is serviced forever to the exclusion of the
\* other.
NoStarvation ==
    /\ (videoC = 1) ~> (videoC = 0 \/ pc \notin LoopPcs)
    /\ (clockC = 1) ~> (clockC = 0 \/ pc \notin LoopPcs)

\* an advance was chosen while the present trigger was ready as well
NoStarvationWitness ==
    /\ pc = "switch"
    /\ nAdv = 1
    /\ videoC = 1
    /\ clockC = 1

\* C11: on the assemble path, when assembly and every registration succeed,
\* the machine the loop gets is the one loaded from the assembled image and its
\* breakpoint set is exactly the annotated addresses; a breakpoint is added
\* only by the range loop of Load, on an existing machine, and no step of the
\* loop changes the breakpoint set.
AnnotatedBreakpoints ==
    /\ []((File # "" /\ Assemble /\ ~raised /\ (pc = "init" \/ Looping)) =>
             (VM.image = "Asm" /\ VM.Breakpoints = asmBps))
    /\ [][(VM'.Breakpoints # VM.Breakpoints) =>
             \/ pc = "range" /\ VM.image = "Asm" /\ VM'.image = "Asm"
             \/ pc = "defer" /\ panicking]_vars

\* two annotated addresses are registered when the loop takes its first tick
AnnotatedBreakpointsWitness ==
    /\ pc = "switch"
    /\ ~raised
    /\ VM.image = "Asm"
    /\ Cardinality(asmBps) = 2
    /\ VM.Breakpoints = asmBps

\* breakpoint results returned so far (counted up to MaxLog)
Hits == Len(stdout) + (IF res.type = "Breakpoint" THEN 1 ELSE 0)

DefaultStartup ==
    /\ (File = "" /\ pc = "init") => (VM = LoadROM("Pong") /\ ~raised)
    /\ (File = "" /\ Looping) => (VM.image = "Pong" /\ VM.Breakpoints = {})
    /\ (File = "" /\ ~Break /\ Looping /\ ~delivered) => ~Paused

\* no file but -a given: the first advance call runs the default program
DefaultStartupWitness ==
    /\ File = ""
    /\ Assemble
    /\ ~Break
    /\ ~delivered
    /\ pc = "switch"
    /\ ~firstArg
    /\ VM.image = "Pong"
    /\ VM.PC # 0

\* C14: a valid binary image given without the assemble flag yields the
\* machine that loading the image directly gives, with no breakpoint.
BinaryPathAddsNothing ==
    /\ (File # "" /\ ~Assemble /\ ~raised /\ pc = "init") => (VM = LoadROM("File"))
    /\ (File # "" /\ ~Assemble /\ ~raised /\ Looping) =>
          (VM.image = "File" /\ VM.Breakpoints = {})

\* Load returned with the machine of the binary image
BinaryPathAddsNothingWitness ==
    /\ pc = "init"
    /\ File # ""
    /\ ~Assemble
    /\ ~raised
    /\ VM = LoadROM("File")

\* C15: while the loop iterates, the window and renderer exist and VM is a
\* machine; when the presentation subsystem fails to initialise the process
\* ends with nothing loaded, advanced or drawn.
CollaboratorsExist ==
    /\ (pc \in LoopPcs) => (Window /\ VM.image # "nil" /\ ~panicking)
    /\ (pc = "panicked") =>
          (~Window /\ VM = NilVM /\ ~raised /\ ~called /\ nDraw = 0)

\* the loop draws a frame of the dummy machine after a failed load
CollaboratorsExistWitness ==
    /\ pc = "poll"
    /\ nDraw = 1
    /\ raised
    /\ Window
    /\ VM.image = "Dummy"

\* C16: an iteration that services the present trigger draws once and leaves
\* the machine, its breakpoints and the run state as they were; in the loop
\* the machine changes only in a step that services the step trigger.
DrawLeavesMachine ==
    [][/\ (videoC = 1 /\ videoC' = 0) =>
             (VM' = VM /\ Paused' = Paused /\ nDraw' = 1 /\ nAdv' = 0)
       /\ (pc \in LoopPcs /\ VM' # VM) => (clockC = 1 /\ clockC' = 0)]_vars

\* a frame was drawn of a running machine that has breakpoints and is mid-way
DrawLeavesMachineWitness ==
    /\ pc = "poll"
    /\ nDraw = 1
    /\ called
    /\ ~Paused
    /\ VM.PC # 0
    /\ VM.Breakpoints # {}

\* C17: when both triggers are ready at the wait point either case can be
\* taken; the iteration services exactly one of them and the tick of the
\* other stays buffered; a tick leaves its buffer only by being serviced, and
\* the deferred trigger is serviced later unless the loop ends first.
TieDeferred ==
    /\ [](Tie => (ENABLED SelectVideo /\ ENABLED SelectClock))
    /\ [][(Tie /\ pc' # pc) =>
             (clockC' + videoC' = 1 /\ nAdv' + nDraw' = 1)]_vars
    /\ [][/\ (videoC = 1 /\ videoC' = 0) => (nDraw' = 1)
          /\ (clockC = 1 /\ clockC' = 0) => (nAdv' = 1)]_vars
    /\ (pc = "poll" /\ nDraw = 1 /\ clockC = 1) ~> (nAdv = 1 \/ pc \notin LoopPcs)
    /\ (pc = "poll" /\ nAdv = 1 /\ videoC = 1) ~> (nDraw = 1 \/ pc \notin LoopPcs)

\* a step iteration ended with the present tick still buffered
TieDeferredWitness ==
    /\ pc = "poll"
    /\ nAdv = 1
    /\ nDraw = 0
    /\ videoC = 1
    /\ clockC = 0
    /\ ~quit

\* what one step iteration alone makes of a machine and a run state
StepOutcomes(vm, paused) ==
    {<< Process(vm, paused, n).vm,
        paused \/ Process(vm, paused, n).res.type = "Breakpoint" >> :
       n \in 0 .. MaxBurst}

\* both triggers of a recorded tie have been serviced
TieServiced ==
    /\ tie0.open
    /\ pc = "poll"
    /\ clockC = 0
    /\ videoC = 0

\* C18: from a tie with no external input pending, servicing step then
\* present (nDraw = 1 at the end) and servicing present then step (nAdv = 1 at
\* the end) both end in a machine state and a run state that the step alone
\* produces from the state of the tie.
TieOrderIrrelevant ==
    TieServiced => (<< VM, Paused >> \in StepOutcomes(tie0.vm, tie0.paused))

\* present was serviced first and the step after it hit a breakpoint
TieOrderIrrelevantWitness ==
    /\ TieServiced
    /\ nAdv = 1
    /\ ~tie0.paused
    /\ Paused
    /\ VM # tie0.vm

====
